---------------------------- MODULE Spec2Model ----------------------------
(***************************************************************************)
(* A model of pull-agent: the serf-backed registry of "who is downloading  *)
(* which layer" (pkg/cluster/serf/serf.go) and the HTTP proxy that relays  *)
(* or fetches layers (pkg/proxy/proxy.go, revision with the len            *)
(* parameter).  One node is modelled; its peers, the origin and the serf   *)
(* transport are the environment.                                          *)
(***************************************************************************)
EXTENDS Integers, Sequences, FiniteSets, TLC

(***************************************************************************)
(* Universe of the model.                                                  *)
(***************************************************************************)
\* layer digests, the keys of the registry
Digests == {"d1", "d2"}
\* the layers that are requested from the proxy of this node
Paths == {"d1"}
\* node addresses; "" is Go's zero string
Addrs == {"", "n1"}

\* serf.go:17-20
EventStartLayer == "START_LAYER"
EventEndLayer == "END_LAYER"
\* a user event name of some other application on the same serf cluster
EventOther == "OTHER_EVENT"

\* serf.go:44-47
StatusStarted == 1
StatusEnded == 0

(***************************************************************************)
(* Go slices.  byDigest maps a digest to a slice header; the elements live *)
(* in backing arrays of the heap `arrays`.  A header of an absent map key  *)
(* (and the nil slice) has ok = FALSE.                                     *)
(***************************************************************************)
ArrIds == 1..(Cardinality(Digests) + 2)

NilSlice == [ok |-> FALSE, arr |-> 0, len |-> 0, cap |-> 0]
EmptySlice == [ok |-> TRUE, arr |-> 0, len |-> 0, cap |-> 0]

VARIABLES
    servePc,      \* position of the Serve goroutine: "join", "loop", "failed"
    address,      \* serf.address
    advertise,    \* config.MemberlistConfig.AdvertiseAddr
    byDigest,     \* serf.byDigest: digest -> slice header
    arrays,       \* heap: backing arrays of the slices
    held,         \* a slice some caller obtained from Endpoints
    writes,       \* how many times that caller wrote into a slice
    last,         \* history: last layer event processed per (digest, node)
    onlyLayerEvents,  \* history: every processed event was a layer event
    req,          \* the HTTP requests being handled, one record per handler
    files,        \* the cache directory: path -> inode (0: no such file)
    inodes,       \* contents of the inodes, as sequences of bytes
    leaked,       \* inodes held by descriptors that no handler holds any more
    wire          \* broadcast events the transport has not delivered yet

regVars == <<servePc, address, advertise, byDigest, arrays>>
callerVars == <<held, writes>>
histVars == <<last, onlyLayerEvents>>
proxyVars == <<req, files, inodes, leaked>>
netVars == <<wire>>
\* what no step of a request handler writes
serfVars == <<servePc, address, advertise, byDigest, arrays, held, writes,
              last, onlyLayerEvents>>

\* the elements of a slice, read from heap h
Elems(h, s) == IF s.len = 0 THEN <<>> ELSE SubSeq(h[s.arr], 1, s.len)

Range(q) == {q[i] : i \in 1..Len(q)}

\* runtime.growslice for a []string growing to newLen elements
GrowCap(oldCap, newLen) ==
    IF newLen > 2 * oldCap THEN newLen ELSE 2 * oldCap

\* capacity of a slice built by appending k elements one by one to []string{}
RECURSIVE CapAfter(_)
CapAfter(k) ==
    IF k = 0 THEN 0
    ELSE LET c == CapAfter(k - 1)
         IN  IF k - 1 < c THEN c ELSE GrowCap(c, k)

Pad(q, n) == [i \in 1..n |-> IF i <= Len(q) THEN q[i] ELSE ""]

\* arrays some live slice still points to
Live(bd, hd) == {bd[d].arr : d \in Digests} \cup {hd.arr}

\* an array id nothing points to
FreshArr(bd, hd) == CHOOSE a \in ArrIds : a \notin Live(bd, hd) /\
                        \A b \in ArrIds : b \notin Live(bd, hd) => a <= b

\* garbage collection: arrays nothing points to are gone
Collect(h, bd, hd) == [a \in ArrIds |-> IF a \in Live(bd, hd) THEN h[a] ELSE <<>>]

\* serf.Endpoints: the slice stored in the map, as it is
Endpoints(digest) == byDigest[digest]

\* what a caller reads out of the slice Endpoints gave it
listEndpoints(digest) == Elems(arrays, Endpoints(digest))

\* addNode without its scan for the node: it appends whether or not the node is there
addNodeNoScan(bd, h, hd, digest, node) ==
    LET nodes == IF bd[digest].ok THEN bd[digest] ELSE EmptySlice
        elems == Elems(h, nodes)
        a == FreshArr(bd, hd)
        c == GrowCap(nodes.cap, nodes.len + 1)
        h2 == [h EXCEPT ![a] = Pad(Append(elems, node), c)]
        bd2 == [bd EXCEPT ![digest] =
                   [ok |-> TRUE, arr |-> a, len |-> nodes.len + 1, cap |-> c]]
    IN  IF nodes.len >= Cardinality(Addrs) THEN <<bd, h>>
        ELSE <<bd2, Collect(h2, bd2, hd)>>

\* serf.addNode: the new <<byDigest, arrays>>
addNode(bd, h, hd, digest, node) ==
    LET nodes == IF bd[digest].ok THEN bd[digest] ELSE EmptySlice
        elems == Elems(h, nodes)
    IN  IF node \in Range(elems) THEN <<bd, h>>
        ELSE IF nodes.len < nodes.cap
        THEN \* append in place
             LET h2 == [h EXCEPT ![nodes.arr][nodes.len + 1] = node]
                 bd2 == [bd EXCEPT ![digest] = [nodes EXCEPT !.len = nodes.len + 1]]
             IN  <<bd2, h2>>
        ELSE \* append reallocates
             LET a == FreshArr(bd, hd)
                 c == GrowCap(nodes.cap, nodes.len + 1)
                 h2 == [h EXCEPT ![a] = Pad(Append(elems, node), c)]
                 bd2 == [bd EXCEPT ![digest] =
                            [ok |-> TRUE, arr |-> a, len |-> nodes.len + 1, cap |-> c]]
             IN  <<bd2, Collect(h2, bd2, hd)>>

\* the elements of q that differ from node, in order
RECURSIVE Without(_, _)
Without(q, node) ==
    IF q = <<>> THEN <<>>
    ELSE IF Head(q) = node THEN Without(Tail(q), node)
         ELSE <<Head(q)>> \o Without(Tail(q), node)

\* delNode that drops the first node of the list, whichever it is
delNodeFirst(bd, h, hd, digest, node) ==
    IF ~bd[digest].ok THEN <<bd, h>>
    ELSE LET old == Elems(h, bd[digest])
             newNodes == IF old = <<>> THEN <<>> ELSE Tail(old)
             k == Len(newNodes)
         IN  IF k = 0
             THEN LET bd2 == [bd EXCEPT ![digest] = EmptySlice]
                  IN  <<bd2, Collect(h, bd2, hd)>>
             ELSE LET a == FreshArr(bd, hd)
                      c == CapAfter(k)
                      h2 == [h EXCEPT ![a] = Pad(newNodes, c)]
                      bd2 == [bd EXCEPT ![digest] =
                                 [ok |-> TRUE, arr |-> a, len |-> k, cap |-> c]]
                  IN  <<bd2, Collect(h2, bd2, hd)>>

\* serf.delNode: the new <<byDigest, arrays>>
delNode(bd, h, hd, digest, node) ==
    IF ~bd[digest].ok THEN <<bd, h>>
    ELSE LET newNodes == Without(Elems(h, bd[digest]), node)
             k == Len(newNodes)
         IN  IF k = 0
             THEN LET bd2 == [bd EXCEPT ![digest] = EmptySlice]
                  IN  <<bd2, Collect(h, bd2, hd)>>
             ELSE LET a == FreshArr(bd, hd)
                      c == CapAfter(k)
                      h2 == [h EXCEPT ![a] = Pad(newNodes, c)]
                      bd2 == [bd EXCEPT ![digest] =
                                 [ok |-> TRUE, arr |-> a, len |-> k, cap |-> c]]
                  IN  <<bd2, Collect(h2, bd2, hd)>>

(***************************************************************************)
(* Events of the serf event channel.                                       *)
(***************************************************************************)
\* json.Marshal of a LayerEvent (serf.go:50-57): the JSON object
Marshal(le) == [kind |-> "object",
                fields |-> [status |-> le.Status, digest |-> le.Digest,
                            address |-> le.Address]]

ZeroLayerEvent == [Status |-> 0, Digest |-> "", Address |-> ""]

\* json.Unmarshal into a LayerEvent: a key the object lacks leaves the zero value
Unmarshal(payload) ==
    IF payload.kind # "object" THEN [err |-> TRUE, le |-> ZeroLayerEvent]
    ELSE LET f == payload.fields
         IN  [err |-> FALSE,
              le |-> [Status |-> IF "status" \in DOMAIN f THEN f.status ELSE 0,
                      Digest |-> IF "digest" \in DOMAIN f THEN f.digest ELSE "",
                      Address |-> IF "address" \in DOMAIN f THEN f.address ELSE ""]]

LayerEvents == [Status : {0, 1, 2}, Digest : Digests, Address : Addrs]

Payloads ==
    {[kind |-> "garbage"], [kind |-> "mistyped"]}
    \cup {Marshal(le) : le \in LayerEvents}
    \cup {[kind |-> "object", fields |-> [digest |-> d, address |-> n]] :
            d \in Digests, n \in Addrs}

UserEvent(name, payload) == [user |-> TRUE, name |-> name, payload |-> payload]
MemberEvent == [user |-> FALSE, name |-> "member-join", payload |-> [kind |-> "garbage"]]

Events == {MemberEvent} \cup
          {UserEvent(n, p) : n \in {EventStartLayer, EventEndLayer, EventOther},
                             p \in Payloads}

\* what StartLayer / EndLayer of a node with address a put on the wire
StartedEvent(d, a) ==
    UserEvent(EventStartLayer, Marshal([Status |-> StatusStarted, Digest |-> d, Address |-> a]))
EndedEvent(d, a) ==
    UserEvent(EventEndLayer, Marshal([Status |-> StatusEnded, Digest |-> d, Address |-> a]))

\* the events the Serve goroutine is given while the proxy runs: the layer
\* events of the requested layers, and one of each other kind
ProxyEvents ==
    {StartedEvent(d, a) : d \in Paths, a \in Addrs}
    \cup {EndedEvent(d, a) : d \in Paths, a \in Addrs}
    \cup {MemberEvent, UserEvent(EventOther, [kind |-> "garbage"])}

\* the events this node's StartLayer / EndLayer can put on the wire
WireEvents ==
    {StartedEvent(d, a) : d \in Paths, a \in Addrs}
    \cup {EndedEvent(d, a) : d \in Paths, a \in Addrs}

IsLayerEvent(e) == \E d \in Digests, a \in Addrs : e \in {StartedEvent(d, a), EndedEvent(d, a)}

(***************************************************************************)
(* The Serve goroutine.                                                    *)
(***************************************************************************)
\* serf.Serve, lines 131-137: the join
Join ==
    /\ servePc = "join"
    /\ \E n \in {0, 1}, err \in BOOLEAN :
          servePc' = IF n # 1 \/ err THEN "failed" ELSE "loop"
    /\ UNCHANGED <<address, advertise, byDigest, arrays>>

\* the registry after one iteration of the loop of serf.Serve on event e
Handle(bd, h, hd, e) ==
    IF ~e.user THEN <<bd, h>>
    ELSE LET u == Unmarshal(e.payload)
         IN  IF u.err THEN <<bd, h>>
             ELSE LET r1 == IF u.le.Status = StatusStarted
                            THEN addNode(bd, h, hd, u.le.Digest, u.le.Address)
                            ELSE <<bd, h>>
                  IN  IF u.le.Status = StatusEnded
                      THEN delNode(r1[1], r1[2], hd, u.le.Digest, u.le.Address)
                      ELSE r1

\* serf.Serve, lines 139-164: one iteration of the loop, on event e
ServeEvent(e) ==
    /\ servePc = "loop"
    /\ LET r == Handle(byDigest, arrays, held, e)
       IN  /\ byDigest' = r[1]
           /\ arrays' = r[2]
    /\ UNCHANGED <<servePc, address, advertise>>

\* the bookkeeping of which layer event came last for each pair
Record(e) ==
    IF IsLayerEvent(e)
    THEN LET le == Unmarshal(e.payload).le
         IN  /\ last' = [last EXCEPT ![le.Digest, le.Address] =
                            IF le.Status = StatusStarted THEN "started" ELSE "ended"]
             /\ UNCHANGED onlyLayerEvents
    ELSE /\ onlyLayerEvents' = FALSE
         /\ UNCHANGED last

(***************************************************************************)
(* A caller of Endpoints that keeps and writes the slice it was given.     *)
(***************************************************************************)
\* the writes of the caller that are followed
MaxWrites == 1

\* the caller calls Endpoints and keeps what it returns
CallerList(d) ==
    /\ held' = Endpoints(d)
    /\ arrays' = Collect(arrays, byDigest, Endpoints(d))
    /\ UNCHANGED <<servePc, address, advertise, byDigest, writes>>

\* the caller assigns v to element i of the slice it keeps
CallerMutate(i, v) ==
    /\ writes < MaxWrites
    /\ held.len >= i
    /\ arrays' = [arrays EXCEPT ![held.arr][i] = v]
    /\ writes' = writes + 1
    /\ UNCHANGED <<servePc, address, advertise, byDigest, held>>

(***************************************************************************)
(* The proxy: query parameters.  Strings that the code parses are          *)
(* sequences of one-character strings.                                     *)
(***************************************************************************)
\* the longest layer, in bytes
MaxLen == 2
\* the request handlers of the node
Reqs == {"r1", "r2"}
\* the handler that runs where requests are handled one after the other
Serial == {"r1"}
\* the most descriptors left open by finished fetches when a fetch creates
\* its file
MaxLeaked == 1
\* one inode for each path, each handler and each descriptor left open
InodeIds == 1..(Cardinality(Paths) + Cardinality(Reqs) + MaxLeaked)

DigitChars == <<"0", "1", "2", "3", "4", "5", "6", "7", "8", "9">>
DigitVal(c) == (CHOOSE i \in 1..10 : DigitChars[i] = c) - 1
IsDigit(c) == \E i \in 1..10 : DigitChars[i] = c

\* the value of a string of digits
RECURSIVE DigitsVal(_)
DigitsVal(s) ==
    IF s = <<>> THEN 0
    ELSE 10 * DigitsVal(SubSeq(s, 1, Len(s) - 1)) + DigitVal(s[Len(s)])

\* strconv.ParseInt(s, 10, 64), for values far from the ends of int64
ParseInt(s) ==
    LET signed == s # <<>> /\ s[1] \in {"+", "-"}
        digits == IF signed THEN Tail(s) ELSE s
    IN  IF digits = <<>> \/ \E i \in 1..Len(digits) : ~IsDigit(digits[i])
        THEN [err |-> TRUE, val |-> 0]
        ELSE [err |-> FALSE,
              val |-> IF signed /\ s[1] = "-" THEN 0 - DigitsVal(digits)
                      ELSE DigitsVal(digits)]

\* fmt's %d of an int64 that is not negative
RECURSIVE FormatInt(_)
FormatInt(n) ==
    IF n < 10 THEN <<DigitChars[n + 1]>>
    ELSE FormatInt(n \div 10) \o <<DigitChars[(n % 10) + 1]>>

HexChars == {"0", "1", "2", "3", "4", "5", "6", "7", "8", "9",
             "a", "b", "c", "d", "e", "f", "A", "B", "C", "D", "E", "F"}

\* url.QueryUnescape: %XX becomes one character (written "%XX" here), + a space
RECURSIVE QueryUnescape(_)
QueryUnescape(s) ==
    IF s = <<>> THEN [err |-> FALSE, val |-> <<>>]
    ELSE IF s[1] = "%"
    THEN IF Len(s) < 3 \/ s[2] \notin HexChars \/ s[3] \notin HexChars
         THEN [err |-> TRUE, val |-> <<>>]
         ELSE LET rest == QueryUnescape(SubSeq(s, 4, Len(s)))
              IN  [err |-> rest.err,
                   val |-> IF rest.err THEN <<>> ELSE <<"%" \o s[2] \o s[3]>> \o rest.val]
    ELSE LET rest == QueryUnescape(Tail(s))
         IN  [err |-> rest.err,
              val |-> IF rest.err THEN <<>>
                      ELSE <<IF s[1] = "+" THEN " " ELSE s[1]>> \o rest.val]

\* the values of the len parameter that requests carry
LenStrings == {<<>>, <<"x">>, <<"+", "1">>} \cup {FormatInt(k) : k \in 1..MaxLen}
\* the values of the source parameter that requests carry
Sources == {<<>>, <<"o", "%", "4", "1">>, <<"%", "z">>}
\* the values of the relay parameter that requests carry
Relays == {"", "true"}

NoURL == [kind |-> "none", node |-> "", relay |-> "", len |-> <<>>, src |-> <<>>]

\* a relay URL that lacks the relay parameter
RelayURLNoFlag(node, length) ==
    [kind |-> "peer", node |-> node, relay |-> "", len |-> FormatInt(length),
     src |-> <<>>]

\* proxy.go (len revision) line 69: the URL of the relay request to a peer
RelayURL(node, length) ==
    [kind |-> "peer", node |-> node, relay |-> "true", len |-> FormatInt(length),
     src |-> <<>>]

SourceURL(src) == [kind |-> "origin", node |-> "", relay |-> "", len |-> <<>>, src |-> src]

IdleReq == [pc |-> "idle", path |-> "d1", relay |-> "", length |-> 0, url |-> NoURL,
            status |-> 0, fd |-> 0, off |-> 0, got |-> 0, out |-> <<>>,
            pend |-> 0, rerr |-> "nil", buf |-> <<>>,
            queried |-> FALSE, created |-> FALSE, failed |-> FALSE, bcast |-> <<>>]

(***************************************************************************)
(* The cache directory.                                                    *)
(***************************************************************************)
UsedInodes(fs, rq, lk) ==
    {fs[d] : d \in Paths} \cup {rq[r].fd : r \in Reqs} \cup lk

FreeInodes(fs, rq, lk) == {i \in InodeIds : i \notin UsedInodes(fs, rq, lk)}

FreshInode(fs, rq, lk) ==
    CHOOSE i \in FreeInodes(fs, rq, lk) : \A j \in FreeInodes(fs, rq, lk) : i <= j

\* an inode without a name and without an open descriptor is gone
Reclaim(ino, fs, rq, lk) ==
    [i \in InodeIds |-> IF i \in UsedInodes(fs, rq, lk) THEN ino[i] ELSE <<>>]

\* the file at a path, as a reader opening it now would see it
NoFile == <<-1>>
FileAt(d) == IF files[d] = 0 THEN NoFile ELSE inodes[files[d]]

\* os.File.Write of data at offset off of a file with the given content
WriteAt(content, off, data) ==
    LET n == IF off + Len(data) > Len(content) THEN off + Len(data) ELSE Len(content)
    IN  [i \in 1..n |-> IF i > off /\ i <= off + Len(data) THEN data[i - off]
                        ELSE IF i <= Len(content) THEN content[i] ELSE 0]

\* bytes from+1 .. from+n of a layer: byte k of every layer has value k
Bytes(from, n) == [i \in 1..n |-> from + i]

(***************************************************************************)
(* The proxy: the handler and its two copy routines.                       *)
(***************************************************************************)
\* the handler returns: its locals are gone, what the requester was given stays
Finish(rec, st) ==
    [rec EXCEPT !.pc = "done", !.status = st, !.fd = 0, !.off = 0, !.got = 0]

\* a handler that serves a relay request before it looks at len
HandlerFuncRelayFirst(r, path, qsLen, relay, source) ==
    /\ req[r].pc \in {"idle", "done"}
    /\ LET p == ParseInt(qsLen)
           new == [IdleReq EXCEPT !.path = path, !.relay = relay, !.length = p.val]
           nodes == Endpoints(path)
           u == QueryUnescape(source)
       IN  IF relay # ""
           THEN req' = [req EXCEPT ![r] = [new EXCEPT !.pc = "open"]]
           ELSE IF p.err
           THEN req' = [req EXCEPT ![r] = Finish(new, 400)]
           ELSE IF nodes.len >= 1
           THEN \E i \in 1..nodes.len :
                   req' = [req EXCEPT ![r] =
                             [new EXCEPT !.pc = "get", !.queried = TRUE,
                                         !.url = RelayURL(arrays[nodes.arr][i], p.val)]]
           ELSE IF source # <<>>
           THEN IF u.err
                THEN req' = [req EXCEPT ![r] = [Finish(new, 500) EXCEPT !.queried = TRUE]]
                ELSE req' = [req EXCEPT ![r] =
                               [new EXCEPT !.pc = "get", !.queried = TRUE,
                                           !.url = SourceURL(u.val)]]
           ELSE req' = [req EXCEPT ![r] = [Finish(new, 0) EXCEPT !.queried = TRUE]]
    /\ UNCHANGED <<files, inodes, leaked, serfVars>>

\* Proxy.HandlerFunc, up to the call of copyFromFile or copyFromURL
HandlerFunc(r, path, qsLen, relay, source) ==
    /\ req[r].pc \in {"idle", "done"}
    /\ LET p == ParseInt(qsLen)
           new == [IdleReq EXCEPT !.path = path, !.relay = relay, !.length = p.val]
           nodes == Endpoints(path)
           u == QueryUnescape(source)
       IN  IF p.err
           THEN req' = [req EXCEPT ![r] = Finish(new, 400)]
           ELSE IF relay # ""
           THEN req' = [req EXCEPT ![r] = [new EXCEPT !.pc = "open"]]
           ELSE IF nodes.len >= 1
           THEN \E i \in 1..nodes.len :
                   req' = [req EXCEPT ![r] =
                             [new EXCEPT !.pc = "get", !.queried = TRUE,
                                         !.url = RelayURL(arrays[nodes.arr][i], p.val)]]
           ELSE IF source # <<>>
           THEN IF u.err
                THEN req' = [req EXCEPT ![r] = [Finish(new, 500) EXCEPT !.queried = TRUE]]
                ELSE req' = [req EXCEPT ![r] =
                               [new EXCEPT !.pc = "get", !.queried = TRUE,
                                           !.url = SourceURL(u.val)]]
           ELSE req' = [req EXCEPT ![r] = [Finish(new, 0) EXCEPT !.queried = TRUE]]
    /\ UNCHANGED <<files, inodes, leaked, serfVars>>

\* a request that is announced before it is sent
GetAnnounced(r) ==
    /\ req[r].pc = "get"
    /\ \E ok \in BOOLEAN :
          req' = [req EXCEPT ![r] =
                    IF ok THEN [@ EXCEPT !.pc = "create",
                                         !.bcast = <<StartedEvent(req[r].path, address)>>]
                    ELSE Finish(@, 400)]
    /\ UNCHANGED <<files, inodes, leaked, serfVars>>

\* copyFromURL, lines 138-143: the request to the peer or to the origin
Get(r) ==
    /\ req[r].pc = "get"
    /\ \E ok \in BOOLEAN :
          req' = [req EXCEPT ![r] = IF ok THEN [@ EXCEPT !.pc = "create"]
                                    ELSE Finish(@, 400)]
    /\ UNCHANGED <<files, inodes, leaked, serfVars>>

\* copyFromURL, lines 144-150: os.Create of the cache file; a new file is
\* created while fewer than MaxLeaked descriptors wait for their finalizer
Create(r) ==
    /\ req[r].pc = "create"
    /\ LET d == req[r].path
           i == IF files[d] # 0 THEN files[d] ELSE FreshInode(files, req, leaked)
       IN  \/ /\ req' = [req EXCEPT ![r] = Finish(@, 500)]
              /\ UNCHANGED <<files, inodes, leaked, serfVars>>
           \/ /\ Cardinality(leaked) < MaxLeaked
              /\ req' = [req EXCEPT ![r] = [@ EXCEPT !.pc = "start", !.fd = i,
                                                     !.off = 0, !.created = TRUE]]
              /\ files' = [files EXCEPT ![d] = i]
              /\ inodes' = [inodes EXCEPT ![i] = <<>>]
              /\ UNCHANGED leaked
    /\ UNCHANGED serfVars

\* a StartLayer that announces fetches from the origin only
StartLayerOriginOnly(r) ==
    /\ req[r].pc = "start"
    /\ req' = [req EXCEPT ![r] =
                 [@ EXCEPT !.pc = "copy",
                           !.bcast = IF req[r].url.kind = "origin"
                                     THEN Append(@, StartedEvent(req[r].path, address))
                                     ELSE @]]
    /\ UNCHANGED <<files, inodes, leaked, serfVars>>

\* serf.StartLayer, called at copyFromURL line 152
StartLayer(r) ==
    /\ req[r].pc = "start"
    /\ req' = [req EXCEPT ![r] =
                 [@ EXCEPT !.pc = "copy",
                           !.bcast = Append(@, StartedEvent(req[r].path, address))]]
    /\ UNCHANGED <<files, inodes, leaked, serfVars>>

\* the state of the copy loop after a chunk has been handled or the body has
\* ended: er is what the read of the body returned
AfterChunk(er) == IF er = "nil" THEN "copy" ELSE IF er = "err" THEN "remove" ELSE "end"

\* the first half of one iteration of io.CopyBuffer(fw, resp.Body, buf),
\* copyFromURL line 160: the body gives n bytes and er, and fileWriter.Write
\* writes them to the cache file (line 97), where the error is dropped
Copy(r, n, er, fileOk) ==
    /\ req[r].pc = "copy"
    /\ n \in 0..(MaxLen - req[r].got)
    /\ n > 0 \/ er # "nil"
    /\ n = 0 => fileOk
    /\ LET data == Bytes(req[r].got, n)
           wrote == n > 0 /\ fileOk
       IN  /\ req' = [req EXCEPT ![r] =
                        [@ EXCEPT !.pc = IF n > 0 THEN "write" ELSE AfterChunk(er),
                                  !.got = @ + n,
                                  !.pend = n,
                                  !.rerr = er,
                                  !.off = IF wrote THEN @ + n ELSE @,
                                  !.failed = @ \/ er = "err" \/ (n > 0 /\ ~fileOk)]]
           /\ inodes' = IF wrote
                        THEN [inodes EXCEPT ![req[r].fd] = WriteAt(@, req[r].off, data)]
                        ELSE inodes
    /\ UNCHANGED <<files, leaked, serfVars>>

\* a copy loop that goes on when the response does not take a chunk
ForwardKeepGoing(r, respOk) ==
    /\ req[r].pc = "write"
    /\ LET data == Bytes(req[r].got - req[r].pend, req[r].pend)
       IN  req' = [req EXCEPT ![r] =
                     [@ EXCEPT !.pc = AfterChunk(req[r].rerr),
                               !.pend = 0,
                               !.rerr = "nil",
                               !.out = IF respOk THEN @ \o data ELSE @]]
    /\ UNCHANGED <<files, inodes, leaked, serfVars>>

\* the second half of the iteration: fileWriter.Write hands the chunk to the
\* response (line 98) and returns its error, on which io.CopyBuffer stops
Forward(r, respOk) ==
    /\ req[r].pc = "write"
    /\ LET data == Bytes(req[r].got - req[r].pend, req[r].pend)
       IN  req' = [req EXCEPT ![r] =
                     [@ EXCEPT !.pc = IF respOk THEN AfterChunk(req[r].rerr) ELSE "remove",
                               !.pend = 0,
                               !.rerr = "nil",
                               !.out = IF respOk THEN @ \o data ELSE @,
                               !.failed = @ \/ ~respOk]]
    /\ UNCHANGED <<files, inodes, leaked, serfVars>>

\* an error path that returns after the removal, without announcing the end
RemoveAndReturn(r) ==
    /\ req[r].pc = "remove"
    /\ LET rq == [req EXCEPT ![r] = Finish(@, req[r].status)]
           fs == [files EXCEPT ![req[r].path] = 0]
       IN  /\ req' = rq
           /\ files' = fs
           /\ inodes' = Reclaim(inodes, fs, rq, leaked)
    /\ UNCHANGED <<leaked, serfVars>>

\* copyFromURL, lines 162-167: the file is closed and the path removed
Remove(r) ==
    /\ req[r].pc = "remove"
    /\ LET rq == [req EXCEPT ![r] = [@ EXCEPT !.pc = "end", !.fd = 0]]
           fs == [files EXCEPT ![req[r].path] = 0]
       IN  /\ req' = rq
           /\ files' = fs
           /\ inodes' = Reclaim(inodes, fs, rq, leaked)
    /\ UNCHANGED <<leaked, serfVars>>

\* serf.EndLayer, deferred at copyFromURL line 153, and the return: the
\* cache file was closed on the error path only, so after a copy without
\* error its descriptor stays open, held by no handler
EndLayer(r) ==
    /\ req[r].pc = "end"
    /\ LET rq == [req EXCEPT ![r] =
                    [Finish(@, req[r].status) EXCEPT
                        !.bcast = Append(@, EndedEvent(req[r].path, address))]]
           lk == IF req[r].fd # 0 THEN leaked \cup {req[r].fd} ELSE leaked
       IN  /\ req' = rq
           /\ leaked' = lk
           /\ inodes' = Reclaim(inodes, files, rq, lk)
    /\ UNCHANGED <<files, serfVars>>

\* the finalizer of an os.File that was never closed (os.Create, line 145)
\* closes its descriptor when the collector gets to it
Finalize(i) ==
    /\ i \in leaked
    /\ leaked' = leaked \ {i}
    /\ inodes' = Reclaim(inodes, files, req, leaked \ {i})
    /\ UNCHANGED <<req, files, serfVars>>

\* the size of the buffer of copyFromFile, line 115
ReadBufSize == 50 * 1024 * 1024

\* an open that creates the file, or truncates the one that is there
OpenCreate(r) ==
    /\ req[r].pc = "open"
    /\ LET d == req[r].path
           i == IF files[d] # 0 THEN files[d] ELSE FreshInode(files, req, leaked)
       IN  /\ req' = [req EXCEPT ![r] = [@ EXCEPT !.pc = "read", !.fd = i, !.off = 0]]
           /\ files' = [files EXCEPT ![d] = i]
           /\ inodes' = [inodes EXCEPT ![i] = <<>>]
    /\ UNCHANGED <<leaked, serfVars>>

\* copyFromFile, lines 105-112: os.Open of the cache file
Open(r) ==
    /\ req[r].pc = "open"
    /\ \E ok \in BOOLEAN :
          req' = [req EXCEPT ![r] =
                    IF ok /\ files[req[r].path] # 0
                    THEN [@ EXCEPT !.pc = "read", !.fd = files[req[r].path], !.off = 0]
                    ELSE Finish(@, 500)]
    /\ UNCHANGED <<files, inodes, leaked, serfVars>>

\* what file.ReadAt(buffer, offset) gives: the bytes, and whether it hit EOF
ReadAt(content, size, offset) ==
    LET avail == IF Len(content) > offset THEN Len(content) - offset ELSE 0
        n == IF avail < size THEN avail ELSE size
    IN  [n |-> n, eof |-> n < size, data |-> SubSeq(content, offset + 1, offset + n)]

\* a read loop that ends at the end of the file, as io.Copy would
ReadUntilEOF(r, readOk) ==
    /\ req[r].pc = "read"
    /\ LET rd == ReadAt(inodes[req[r].fd], ReadBufSize, req[r].off)
       IN  IF rd.n = 0
           THEN LET rq == [req EXCEPT ![r] = Finish(@, req[r].status)]
                IN  /\ readOk
                    /\ req' = rq
                    /\ inodes' = Reclaim(inodes, files, rq, leaked)
           ELSE /\ req' = [req EXCEPT ![r] =
                              [@ EXCEPT !.pc = "deliver",
                                        !.buf = IF readOk THEN rd.data ELSE <<>>]]
                /\ UNCHANGED inodes
    /\ UNCHANGED <<files, leaked, serfVars>>

\* copyFromFile, lines 116-124: the loop test, and file.ReadAt into the
\* buffer, which fails (readOk false, logged) or gives the bytes the file
\* holds from the offset on; on EOF below the length the loop then sleeps.
\* When the loop ends the deferred file.Close (line 112) runs.
Read(r, readOk) ==
    /\ req[r].pc = "read"
    /\ IF req[r].off = req[r].length - 1
       THEN LET rq == [req EXCEPT ![r] = Finish(@, req[r].status)]
            IN  /\ readOk
                /\ req' = rq
                /\ inodes' = Reclaim(inodes, files, rq, leaked)
       ELSE LET rd == ReadAt(inodes[req[r].fd], ReadBufSize, req[r].off)
            IN  /\ req' = [req EXCEPT ![r] =
                             [@ EXCEPT !.pc = "deliver",
                                       !.buf = IF readOk THEN rd.data ELSE <<>>]]
                /\ UNCHANGED inodes
    /\ UNCHANGED <<files, leaked, serfVars>>

\* a delivery that advances the offset by what was read, written or not
DeliverCountsRead(r, respOk) ==
    /\ req[r].pc = "deliver"
    /\ LET w == IF respOk THEN Len(req[r].buf) ELSE 0
       IN  req' = [req EXCEPT ![r] =
                     [@ EXCEPT !.pc = "read",
                               !.out = @ \o SubSeq(req[r].buf, 1, w),
                               !.off = @ + Len(req[r].buf),
                               !.buf = <<>>]]
    /\ UNCHANGED <<files, inodes, leaked, serfVars>>

\* copyFromFile, lines 125-129: after the sleep, writer.Write of the bytes in
\* the buffer, and the offset advanced by what the response took
Deliver(r, respOk) ==
    /\ req[r].pc = "deliver"
    /\ LET w == IF respOk THEN Len(req[r].buf) ELSE 0
       IN  req' = [req EXCEPT ![r] =
                     [@ EXCEPT !.pc = "read",
                               !.out = @ \o SubSeq(req[r].buf, 1, w),
                               !.off = @ + w,
                               !.buf = <<>>]]
    /\ UNCHANGED <<files, inodes, leaked, serfVars>>

(***************************************************************************)
(* Specifications.                                                         *)
(***************************************************************************)
\* serf.New, lines 60-78: address is computed and advertised, the struct's
\* address field is left at its zero value
Init ==
    /\ servePc = "join"
    /\ advertise \in Addrs
    /\ address = ""
    /\ byDigest = [d \in Digests |-> NilSlice]
    /\ arrays = [a \in ArrIds |-> <<>>]
    /\ held = NilSlice
    /\ writes = 0
    /\ last = [p \in Digests \X Addrs |-> "none"]
    /\ onlyLayerEvents = TRUE
    /\ req = [r \in Reqs |-> IdleReq]
    /\ files = [d \in Paths |-> 0]
    /\ inodes = [i \in InodeIds |-> <<>>]
    /\ leaked = {}
    /\ wire = [e \in WireEvents |-> 0]

vars == <<servePc, address, advertise, byDigest, arrays, held, writes,
          last, onlyLayerEvents, req, files, inodes, leaked, wire>>

ServeRecorded ==
    \E e \in Events :
        ServeEvent(e) /\ Record(e) /\ UNCHANGED <<callerVars, proxyVars, netVars>>

JoinStep == Join /\ UNCHANGED <<callerVars, histVars, proxyVars, netVars>>

NextRegistry == JoinStep \/ ServeRecorded

ServeStep ==
    \E e \in ProxyEvents :
        ServeEvent(e) /\ UNCHANGED <<callerVars, histVars, proxyVars, netVars>>

\* the steps of the handlers in R
HandlerStep(R) ==
    \E r \in R, path \in Paths, qsLen \in LenStrings, relay \in Relays, source \in Sources :
        HandlerFunc(r, path, qsLen, relay, source) /\ UNCHANGED wire

GetStep(R) == \E r \in R : Get(r) /\ UNCHANGED wire

CreateStep(R) == \E r \in R : Create(r) /\ UNCHANGED wire

StartLayerStep(R) == \E r \in R : StartLayer(r) /\ UNCHANGED wire

CopyStep(R) ==
    \E r \in R, n \in 0..MaxLen, er \in {"nil", "EOF", "err"}, fileOk \in BOOLEAN :
        Copy(r, n, er, fileOk) /\ UNCHANGED wire

ForwardStep(R) == \E r \in R, respOk \in BOOLEAN : Forward(r, respOk) /\ UNCHANGED wire

FinalizeStep == \E i \in InodeIds : Finalize(i) /\ UNCHANGED wire

RemoveStep(R) == \E r \in R : Remove(r) /\ UNCHANGED wire

EndLayerStep(R) == \E r \in R : EndLayer(r) /\ UNCHANGED wire

OpenStep(R) == \E r \in R : Open(r) /\ UNCHANGED wire

ReadStep(R) == \E r \in R, readOk \in BOOLEAN : Read(r, readOk) /\ UNCHANGED wire

DeliverStep(R) == \E r \in R, respOk \in BOOLEAN : Deliver(r, respOk) /\ UNCHANGED wire

Next ==
    \/ JoinStep
    \/ ServeStep
    \/ HandlerStep(Serial)
    \/ GetStep(Serial)
    \/ CreateStep(Serial)
    \/ StartLayerStep(Serial)
    \/ CopyStep(Serial)
    \/ ForwardStep(Serial)
    \/ RemoveStep(Serial)
    \/ EndLayerStep(Serial)
    \/ FinalizeStep
    \/ OpenStep(Serial)
    \/ ReadStep(Serial)
    \/ DeliverStep(Serial)

\* the node: the Serve goroutine and the request handlers
Spec == Init /\ [][Next]_vars

SpecRegistry == Init /\ [][NextRegistry]_vars

CallerStep ==
    \/ \E d \in Digests : CallerList(d) /\ UNCHANGED <<histVars, proxyVars, netVars>>
    \/ \E v \in Addrs : CallerMutate(1, v) /\ UNCHANGED <<histVars, proxyVars, netVars>>
    \/ \E v \in Addrs : CallerMutate(2, v) /\ UNCHANGED <<histVars, proxyVars, netVars>>

ServeAny ==
    \E e \in Events :
        ServeEvent(e) /\ UNCHANGED <<callerVars, histVars, proxyVars, netVars>>

\* two handlers at a time, before any event has reached the registry
\* requests that pass the parameter checks: a len of the longest body or of
\* one byte more, and a source that unescapes
PairStep ==
    \E r \in Reqs, path \in Paths, k \in MaxLen..(MaxLen + 1), relay \in Relays :
        /\ r \in Serial \/ (req[r].pc = "idle" /\ relay = "")
        /\ HandlerFunc(r, path, FormatInt(k), relay, <<"o", "%", "4", "1">>)
        /\ UNCHANGED wire

\* the copy loop with a cache file that takes every write
PairCopy ==
    \E r \in Reqs, n \in 0..MaxLen, er \in {"nil", "EOF", "err"} :
        Copy(r, n, er, TRUE) /\ UNCHANGED wire

NextPair ==
    \/ PairStep
    \/ GetStep(Reqs)
    \/ CreateStep(Reqs)
    \/ StartLayerStep(Reqs)
    \/ PairCopy
    \/ ForwardStep(Reqs)
    \/ RemoveStep(Reqs)
    \/ EndLayerStep(Reqs)
    \/ FinalizeStep
    \/ OpenStep(Reqs)
    \/ ReadStep(Reqs)
    \/ DeliverStep(Reqs)

SpecPair == Init /\ [][NextPair]_vars

\* the most events the transport holds at a time
MaxWire == 2

RECURSIVE Total(_, _)
Total(f, S) ==
    IF S = {} THEN 0
    ELSE LET x == CHOOSE y \in S : TRUE IN f[x] + Total(f, S \ {x})

\* the number of events the transport holds
InFlight == Total(wire, WireEvents)

\* requests arrive while the transport has room for the events of a fetch
ArriveStep ==
    /\ InFlight + 2 <= MaxWire
    /\ HandlerStep(Serial)

\* serf.StartLayer, line 96: UserEvent hands the event to the transport
SendStart ==
    \E r \in Serial :
        /\ StartLayer(r)
        /\ wire' = [wire EXCEPT ![StartedEvent(req[r].path, address)] = @ + 1]

\* serf.EndLayer, line 112: UserEvent hands the event to the transport
SendEnd ==
    \E r \in Serial :
        /\ EndLayer(r)
        /\ wire' = [wire EXCEPT ![EndedEvent(req[r].path, address)] = @ + 1]

\* serf.Serve, line 141: the transport delivers one of the events it holds,
\* in any order
DeliverEvent ==
    \E e \in WireEvents :
        /\ wire[e] > 0
        /\ ServeEvent(e)
        /\ wire' = [wire EXCEPT ![e] = @ - 1]
        /\ UNCHANGED <<callerVars, histVars, proxyVars>>

NextDelivery ==
    \/ JoinStep
    \/ ArriveStep
    \/ GetStep(Serial)
    \/ CreateStep(Serial)
    \/ SendStart
    \/ CopyStep(Serial)
    \/ ForwardStep(Serial)
    \/ RemoveStep(Serial)
    \/ SendEnd
    \/ FinalizeStep
    \/ OpenStep(Serial)
    \/ ReadStep(Serial)
    \/ DeliverStep(Serial)
    \/ DeliverEvent

\* one handler, with the node's own broadcasts delivered to its Serve loop
SpecDelivery == Init /\ [][NextDelivery]_vars

NextCaller == JoinStep \/ ServeAny \/ CallerStep

\* the registry, with a caller of Endpoints that writes the slice it was given
SpecCaller == Init /\ [][NextCaller]_vars

(***************************************************************************)
(* The registry claims.                                                    *)
(***************************************************************************)
\* what every caller sees, for all digests
View(bd, h) == [d \in Digests |-> Elems(h, bd[d])]

NoDup(q) == \A i, j \in 1..Len(q) : q[i] = q[j] => i = j

\* C1: after any sequence of STARTED/ENDED events, a node is listed under a
\* digest exactly when the last event processed for that pair was STARTED
\* (so a start followed by an end leaves the node unlisted).
C1_RegistryTracksLastEvent ==
    onlyLayerEvents =>
        \A d \in Digests, n \in Addrs :
            (n \in Range(listEndpoints(d))) <=> (last[d, n] = "started")

\* C1 witness: "n1" was started and then ended under d1 (the key exists, the
\* other node never appeared), and it is not listed.
C1_Witness ==
    /\ onlyLayerEvents
    /\ byDigest["d1"].ok
    /\ last["d1", "n1"] = "ended"
    /\ last["d1", ""] = "none"
    /\ "n1" \notin Range(listEndpoints("d1"))
    /\ last["d2", "n1"] = "started"

\* C2: recordStart twice in a row gives the same lists as once and never
\* stores a duplicate; recordEnd of an absent pair changes no list.
C2_Idempotent ==
    \A d \in Digests, n \in Addrs :
        LET once == addNode(byDigest, arrays, held, d, n)
            twice == addNode(once[1], once[2], held, d, n)
            ended == delNode(byDigest, arrays, held, d, n)
        IN  /\ View(twice[1], twice[2]) = View(once[1], once[2])
            /\ \A x \in Digests : NoDup(View(twice[1], twice[2])[x])
            /\ n \notin Range(listEndpoints(d)) =>
                   View(ended[1], ended[2]) = View(byDigest, arrays)

\* C2 witness: a registry where d1 lists one node (a second recordStart of it
\* is a repeat, and recordEnd of the other node is an end of an absent pair
\* under an existing key) and d2 has no key at all.
C2_Witness ==
    /\ listEndpoints("d1") = <<"n1">>
    /\ ~byDigest["d2"].ok
    /\ servePc = "loop"

\* C3: a caller writing into the collection Endpoints returned does not change
\* what later calls of Endpoints return.
C3_SnapshotIsolation ==
    [][(\E i \in 1..2, v \in Addrs : CallerMutate(i, v)) =>
          \A d \in Digests : Range(listEndpoints(d))' = Range(listEndpoints(d))]_vars

\* an event that is no user event, or whose payload is no JSON, or whose name
\* is neither of the two layer event names
Foreign(e) ==
    \/ ~e.user
    \/ e.payload.kind = "garbage"
    \/ e.name \notin {EventStartLayer, EventEndLayer}

\* C4: a non-user event, an event with a payload that is no JSON, or an event
\* with another name leaves the registry as it was, and the loop goes on.
C4_ForeignEventsIgnored ==
    [][\A e \in Events : (Foreign(e) /\ ServeEvent(e) /\ Record(e)) =>
          /\ View(byDigest, arrays)' = View(byDigest, arrays)
          /\ servePc' = "loop"]_vars

\* the download events of all layers and nodes
DownloadEvents ==
    {StartedEvent(d, a) : d \in Digests, a \in Addrs}
    \cup {EndedEvent(d, a) : d \in Digests, a \in Addrs}

\* the registry after the loop has processed e1 and then e2
Fold2(e1, e2) ==
    LET one == Handle(byDigest, arrays, held, e1)
    IN  Handle(one[1], one[2], held, e2)

\* the nodes listed for each digest, as sets
SetView(s) == [d \in Digests |-> Range(View(s[1], s[2])[d])]

\* C16: from any registry state, two download events processed in either
\* order leave the same nodes listed for every digest, and an event processed
\* twice leaves what it leaves when processed once.
C16_CommutativeFold ==
    servePc = "loop" =>
        \A e1, e2 \in DownloadEvents :
            /\ SetView(Fold2(e1, e2)) = SetView(Fold2(e2, e1))
            /\ SetView(Fold2(e1, e1)) = SetView(Handle(byDigest, arrays, held, e1))

\* C19: when no request is in flight and every broadcast event has been
\* delivered to the loop, no node is listed for any layer.
C19_EventuallyConsistent ==
    (/\ servePc = "loop"
     /\ \A r \in Reqs : req[r].pc \in {"idle", "done"}
     /\ InFlight = 0)
    => \A d \in Digests : listEndpoints(d) = <<>>

(***************************************************************************)
(* The proxy claims.                                                       *)
(***************************************************************************)
\* the cache directory as the requests see it
FileView == [d \in Paths |-> FileAt(d)]

\* request r took a step
Moved(r) == req'[r] # req[r]

\* C5: an authoritative fetch that went wrong somewhere in its transfer, or
\* that delivered less than the whole layer, leaves no cache file behind.
C5_NoOrphanedCacheFile ==
    \A r \in Reqs :
        (/\ req[r].pc = "done"
         /\ req[r].url.kind = "origin"
         /\ req[r].created
         /\ req[r].failed \/ Len(req[r].out) < req[r].length)
        => files[req[r].path] = 0

\* C6: a fetch broadcasts STARTED at most once; while it copies or cleans up
\* exactly that STARTED is out, and when it is over, on any path, exactly one
\* ENDED of the same node and layer has followed it; nothing else is broadcast.
C6_StartedThenEnded ==
    \A r \in Reqs :
        LET S == StartedEvent(req[r].path, address)
            E == EndedEvent(req[r].path, address)
        IN  /\ req[r].bcast \in {<<>>, <<S>>, <<S, E>>}
            /\ req[r].bcast = <<S>> <=> req[r].pc \in {"copy", "write", "remove", "end"}
            /\ req[r].pc = "done" /\ req[r].created => req[r].bcast = <<S, E>>

\* C6 witness: a fetch that failed and removed its file is over, and has
\* broadcast STARTED and ENDED.
C6_Witness ==
    \E r \in Reqs :
        /\ req[r].pc = "done"
        /\ req[r].failed
        /\ files[req[r].path] = 0
        /\ Len(req[r].bcast) = 2

\* the request that arrives at r has a valid len and no relay flag
PlainArrival(r) ==
    /\ req[r].pc \in {"idle", "done"}
    /\ Moved(r)
    /\ req'[r].relay = ""
    /\ req'[r].status # 400

\* C7 as stated: with A listed for the layer, the request goes to A, with the
\* relay flag and the same len.
C7_RelayedToThatPeer ==
    [][\A r \in Reqs, A \in Addrs :
          (PlainArrival(r) /\ A \in Range(listEndpoints(req'[r].path))) =>
              /\ req'[r].url.kind = "peer"
              /\ req'[r].url.node = A
              /\ req'[r].url.relay # ""
              /\ ParseInt(req'[r].url.len) = [err |-> FALSE, val |-> req'[r].length]]_vars

\* C7 amended: with any node listed for the layer, the request goes to one of
\* the listed nodes, with the relay flag and the same len, and not to the origin.
C7_RelayedToListedPeer ==
    [][\A r \in Reqs :
          (PlainArrival(r) /\ listEndpoints(req'[r].path) # <<>>) =>
              /\ req'[r].url.kind = "peer"
              /\ req'[r].url.node \in Range(listEndpoints(req'[r].path))
              /\ req'[r].url.relay # ""
              /\ ParseInt(req'[r].url.len) = [err |-> FALSE, val |-> req'[r].length]]_vars

\* C7 witness: n1 is the one node listed and a request of len 2 is on its way
\* to n1.
C7_Witness ==
    \E r \in Reqs :
        /\ req[r].pc = "get"
        /\ listEndpoints(req[r].path) = <<"n1">>
        /\ req[r].url.kind = "peer"
        /\ req[r].url.node = "n1"
        /\ req[r].length = 2

\* C8: every event the node broadcasts carries the address it advertises.
C8_EventsCarryAdvertiseAddr ==
    \A r \in Reqs : \A i \in 1..Len(req[r].bcast) :
        Unmarshal(req[r].bcast[i].payload).le.Address = advertise

\* C9: no step of a request with the relay flag changes a cache file, asks the
\* registry, sends a request or broadcasts.
C9_RelayServedFromFile ==
    [][\A r \in Reqs :
          (Moved(r) /\ req'[r].relay # "") =>
              /\ FileView' = FileView
              /\ ~req'[r].queried
              /\ req'[r].url = NoURL
              /\ req'[r].bcast = <<>>]_vars

\* C9 witness: a request with the relay flag has been given bytes of the file
\* while the registry lists a node for the layer.
C9_Witness ==
    \E r \in Reqs :
        /\ req[r].relay # ""
        /\ req[r].out # <<>>
        /\ listEndpoints(req[r].path) # <<>>

\* C10 as stated: no step of a request that is relayed through a peer changes
\* a cache file or broadcasts.
C10_RelayWritesNothing ==
    [][\A r \in Reqs :
          (Moved(r) /\ req'[r].url.kind = "peer") =>
              /\ FileView' = FileView
              /\ req'[r].bcast = <<>>]_vars

\* C10 amended: a request relayed through a peer is copied like a fetch from
\* the origin: the cache file is created, STARTED is out while the copy runs,
\* what has been delivered is in the file, and ENDED follows at the end.
C10_RelayCachesAndAnnounces ==
    \A r \in Reqs :
        req[r].url.kind = "peer" =>
            LET S == StartedEvent(req[r].path, address)
                E == EndedEvent(req[r].path, address)
                chunk == Bytes(req[r].got - req[r].pend, req[r].pend)
            IN  /\ req[r].pc \in {"start", "copy", "write", "remove", "end"} =>
                       req[r].created
                /\ req[r].pc \in {"copy", "write", "remove", "end"} =>
                       req[r].bcast = <<S>>
                /\ req[r].pc \in {"copy", "end"} /\ ~req[r].failed =>
                       FileAt(req[r].path) = req[r].out
                /\ req[r].pc = "write" /\ ~req[r].failed =>
                       FileAt(req[r].path) = req[r].out \o chunk
                /\ req[r].pc = "done" /\ req[r].created => req[r].bcast = <<S, E>>

\* C10 witness: a request relayed through a peer is over, the layer is in the
\* cache file and both events are out.
C10_Witness ==
    \E r \in Reqs :
        /\ req[r].url.kind = "peer"
        /\ req[r].pc = "done"
        /\ ~req[r].failed
        /\ FileAt(req[r].path) = <<1, 2>>
        /\ Len(req[r].bcast) = 2

(***************************************************************************)
(* Startup, parameter checks and the order of a fetch.                     *)
(***************************************************************************)
\* a request arrives at handler r
Arrival(r) == req[r].pc \in {"idle", "done"} /\ Moved(r)

\* C13: once the join has failed the event loop is never entered and no
\* request is served.
C13_JoinFailureFatal ==
    [][servePc = "failed" =>
          /\ servePc' = "failed"
          /\ \A r \in Reqs : ~Arrival(r)]_vars

\* the values of len that strconv.ParseInt refuses
BadLens == {q \in LenStrings : ParseInt(q).err}

\* C14: a request whose len is absent or no base-10 integer gets status 400
\* and nothing else: no registry lookup, no URL requested, no file opened or
\* created, no cache file changed, nothing broadcast, whatever relay and
\* source are.
C14_BadLenRejectedFirst ==
    [][\A r \in Reqs, path \in Paths, qsLen \in BadLens,
         relay \in Relays, source \in Sources :
          (Arrival(r) /\ HandlerFunc(r, path, qsLen, relay, source)) =>
              /\ req'[r].pc = "done"
              /\ req'[r].status = 400
              /\ ~req'[r].queried
              /\ req'[r].url = NoURL
              /\ req'[r].fd = 0
              /\ ~req'[r].created
              /\ req'[r].out = <<>>
              /\ req'[r].bcast = <<>>
              /\ FileView' = FileView
              /\ View(byDigest, arrays)' = View(byDigest, arrays)]_vars

\* C14 witness: a request with the relay flag was rejected with 400 while the
\* registry lists a node for the layer and the cache file is there.
C14_Witness ==
    \E r \in Reqs :
        /\ req[r].pc = "done"
        /\ req[r].status = 400
        /\ req[r].relay # ""
        /\ listEndpoints(req[r].path) # <<>>
        /\ FileAt(req[r].path) = <<1, 2>>

\* C15 as stated: whenever the request to the origin has been sent, STARTED
\* has been broadcast.
C15_StartedBeforeRequest ==
    \A r \in Reqs :
        (req[r].url.kind = "origin" /\ req[r].pc \in {"create", "start", "copy", "write"})
        => req[r].bcast # <<>>

\* C15 amended: STARTED is broadcast after the origin has answered and the
\* cache file has been created, and before any byte of the body is read.
C15_StartedBeforeFirstByte ==
    \A r \in Reqs :
        req[r].url.kind = "origin" =>
            /\ req[r].pc \in {"get", "create", "start"} => req[r].bcast = <<>>
            /\ req[r].bcast # <<>> => req[r].created
            /\ req[r].got > 0 => req[r].bcast # <<>>
            /\ req[r].pc \in {"copy", "write"} =>
                   req[r].bcast = <<StartedEvent(req[r].path, address)>>

\* C15 witness: the origin has answered and the cache file is created, and
\* STARTED is not out yet.
C15_Witness ==
    \E r \in Reqs :
        /\ req[r].url.kind = "origin"
        /\ req[r].pc = "start"
        /\ req[r].created
        /\ FileAt(req[r].path) = <<>>
        /\ req[r].bcast = <<>>

\* the response refuses a chunk of request r while the body has more to give
ResponseRefuses(r) == req[r].pc = "write" /\ req[r].rerr = "nil" /\ Forward(r, FALSE)

\* C17 as stated: when the response refuses a chunk the fetch goes on copying.
C17_ResponseFailureKeepsCaching ==
    [][\A r \in Reqs : ResponseRefuses(r) => req'[r].pc = "copy"]_vars

\* C17 amended: when the response refuses a chunk, which the cache file has
\* been given already, the copy stops at once with the chunk not in the
\* response, and the next step of the fetch removes the cache file.
C17_ResponseFailureAborts ==
    [][\A r \in Reqs :
          /\ ResponseRefuses(r) =>
                 /\ req[r].pend > 0
                 /\ req'[r].pc = "remove"
                 /\ req'[r].out = req[r].out
                 /\ req'[r].failed
          /\ (req[r].pc = "remove" /\ Moved(r)) =>
                 /\ req'[r].pc = "end"
                 /\ files'[req[r].path] = 0]_vars

\* C17 witness: the first chunk is in the cache file and not in the response,
\* and the fetch is about to remove the file.
C17_Witness ==
    \E r \in Reqs :
        /\ req[r].pc = "remove"
        /\ req[r].url.kind = "origin"
        /\ req[r].got = 1
        /\ req[r].out = <<>>
        /\ FileAt(req[r].path) = <<1>>

(***************************************************************************)
(* The relay reader and concurrent requests.                               *)
(***************************************************************************)
\* a request with the relay flag whose read loop has ended
RelayServed(r) == req[r].relay # "" /\ req[r].pc = "done" /\ req[r].status = 0

\* C11: a relay read of expected length L that is over, with the cache file
\* holding L bytes, has delivered exactly L bytes.
C11_DeliversWholeArtifact ==
    \A r \in Reqs :
        (/\ RelayServed(r)
         /\ req[r].length >= 1
         /\ files[req[r].path] # 0
         /\ Len(FileAt(req[r].path)) = req[r].length)
        => Len(req[r].out) = req[r].length

\* C12 as stated: while the cache file holds fewer than length-1 bytes, no
\* step of a relay read of expected length `length` ends the stream.
C12_NeverEndsBelowBoundary ==
    [][\A r \in Reqs :
          (/\ req[r].relay # ""
           /\ req[r].pc = "read"
           /\ Len(inodes[req[r].fd]) < req[r].length - 1)
          => req'[r].pc # "done"]_vars

\* C12 amended: a relay read ends only with its offset at length-1 and
\* length-1 bytes delivered; the bytes it takes at a read are bytes the file
\* holds past the offset at that read, and the offset advances by no more
\* than those, so the file held length-1 bytes at the last read that took
\* any. A read that finds nothing past the offset is followed by a retry at
\* the same offset. The size of the file when the stream ends is not
\* bounded: a fetch that starts during the read truncates the file.
C12_OpenBelowBoundary ==
    [][\A r \in Reqs :
          LET size == Len(inodes[req[r].fd])
              past == IF size > req[r].off THEN size - req[r].off ELSE 0
          IN  /\ req[r].pc = "read" =>
                     /\ req'[r].pc \in {"read", "deliver", "done"}
                     /\ req'[r].pc = "done" =>
                            /\ req[r].off = req[r].length - 1
                            /\ Len(req'[r].out) = req[r].length - 1
                     /\ req'[r].pc = "deliver" =>
                            /\ req[r].off # req[r].length - 1
                            /\ Len(req'[r].buf) <= past
                            /\ req'[r].off = req[r].off
                            /\ req'[r].out = req[r].out
              /\ req[r].pc = "deliver" =>
                     /\ req'[r].pc \in {"deliver", "read"}
                     /\ req'[r].off >= req[r].off
                     /\ req'[r].off <= req[r].off + Len(req[r].buf)
                     /\ Len(req'[r].out) = req'[r].off]_vars

\* C12 witness: a relay read of expected length 3 has delivered the one byte
\* the file holds and is still open, at offset 1, while the fetch that writes
\* the file is still copying.
C12_Witness ==
    \E r, o \in Reqs :
        /\ req[r].relay # ""
        /\ req[r].pc = "read"
        /\ req[r].length = 3
        /\ req[r].out = <<1>>
        /\ req[r].off = 1
        /\ inodes[req[r].fd] = <<1>>
        /\ req[o].pc = "copy"
        /\ req[o].fd = req[r].fd

\* C18: while a fetch that created a cache file is in flight, no step of
\* another request changes the content of that file or the entry of its path.
C18_ExclusiveOwnership ==
    [][\A r, o \in Reqs :
          (/\ r # o
           /\ req[r].pc \in {"start", "copy", "write", "remove"}
           /\ Moved(o))
          => /\ inodes'[req[r].fd] = inodes[req[r].fd]
             /\ files'[req[r].path] = files[req[r].path]]_vars

\* C20 as stated: what a relay read has delivered is the first offset bytes
\* of the file it reads.
C20_DeliveredIsFilePrefix ==
    \A r \in Reqs :
        req[r].pc \in {"read", "deliver"} =>
            /\ req[r].off <= Len(inodes[req[r].fd])
            /\ req[r].out = SubSeq(inodes[req[r].fd], 1, req[r].off)

\* C20 amended: every read takes, in file order, bytes the file holds from
\* the offset on at the time of the read, the delivery hands the response
\* those bytes or none, and the offset advances by exactly the bytes delivered,
\* so the offset is the number of bytes delivered.
C20_OffsetCountsDelivered ==
    [][\A r \in Reqs :
          LET f == inodes[req[r].fd]
              w == req'[r].off - req[r].off
          IN  /\ (req[r].pc = "read" /\ req'[r].pc = "deliver") =>
                     /\ \E n \in 0..Len(f) :
                            req'[r].buf = SubSeq(f, req[r].off + 1, req[r].off + n)
                     /\ w = 0
                     /\ req'[r].out = req[r].out
              /\ (req[r].pc = "deliver" /\ req'[r].pc = "read") =>
                     /\ w \in {0, Len(req[r].buf)}
                     /\ req'[r].out = req[r].out \o SubSeq(req[r].buf, 1, w)
                     /\ Len(req[r].out) = req[r].off
                     /\ Len(req'[r].out) = req'[r].off]_vars

\* C20 witness: a relay read at offset 0 has read the one byte of the file
\* into its buffer, and a new fetch has truncated the file before the byte is
\* delivered.
C20_Witness ==
    \E r, o \in Reqs :
        /\ req[r].relay # ""
        /\ req[r].pc = "deliver"
        /\ req[r].off = 0
        /\ req[r].buf = <<1>>
        /\ inodes[req[r].fd] = <<>>
        /\ req[o].pc = "start"
        /\ req[o].fd = req[r].fd

=============================================================================
